---- MODULE Spec2Model ----
(***************************************************************************)
(* A model of src/src/render_short.py: the caption pipeline (wrap_title,   *)
(* split_script_into_chunks, allocate_timings, escape_drawtext) and the    *)
(* filter graph assembled by main; of tts_request_stream of                *)
(* src/src/tts_openai.py; and of the runs of src/src/sheets_queue.py.      *)
(*                                                                         *)
(* A Python str is a sequence of one-character strings.  A Python float    *)
(* holding a time is an exact rational <<num, den>> in milliseconds, kept  *)
(* in lowest terms, so float rounding is not modelled.                     *)
(***************************************************************************)
EXTENDS Integers, Sequences, FiniteSets, TLC

\* render_short.py
VARIABLES pc, data, probed, title, script, dur, max_chars, target_chunks,
          lines, title_wrapped, sentences, chunks, times, text, safe,
          filter_complex

\* tts_openai.py: tts_request_stream
VARIABLES max_retries, attempt, last_err, bytes_written, out_file, part_file,
          outcomes, sleep_s, result

\* sheets_queue.py: the sheet, and what the runs picked and wrote
VARIABLES sheet, picked_rows, batches, runs, last_run

tts_vars == <<max_retries, attempt, last_err, bytes_written, out_file,
              part_file, outcomes, sleep_s, result>>

queue_vars == <<sheet, picked_rows, batches, runs, last_run>>

vars == <<pc, data, probed, title, script, dur, max_chars, target_chunks,
          lines, title_wrapped, sentences, chunks, times, text, safe,
          filter_complex, tts_vars, queue_vars>>

\* the variables of render_short.py but pc
render_vars == <<data, probed, title, script, dur, max_chars, target_chunks,
                 lines, title_wrapped, sentences, chunks, times, text, safe,
                 filter_complex>>

\* render_short.py not run
RenderIdle ==
    /\ data = <<>> /\ probed = 0 /\ title = <<>> /\ script = <<>> /\ dur = 0
    /\ max_chars = 0 /\ target_chunks = 0
    /\ lines = <<>> /\ title_wrapped = <<>> /\ sentences = <<>>
    /\ chunks = <<>> /\ times = <<>> /\ text = <<>> /\ safe = <<>>
    /\ filter_complex = <<>>

\* tts_request_stream not called
TtsIdle ==
    /\ max_retries = 0 /\ attempt = 0 /\ last_err = <<"None">>
    /\ bytes_written = 0 /\ out_file = <<"absent">> /\ part_file = <<"absent">>
    /\ outcomes = <<>> /\ sleep_s = 0 /\ result = "none"

\* sheets_queue not run
QueueIdle ==
    /\ sheet = <<>> /\ picked_rows = <<>> /\ batches = <<>>
    /\ runs = 0 /\ last_run = "none"

(***************************************************************************)
(* Python str primitives                                                   *)
(***************************************************************************)
\* the characters str.split() and str.strip() treat as whitespace
Whitespace == {" ", "\n", "\t"}

IsSpace(c) == c \in Whitespace

\* a str of n copies of the character c
Rep(c, n) == [i \in 1..n |-> c]

RECURSIVE Concat(_)
Concat(ss) == IF ss = <<>> THEN <<>> ELSE Head(ss) \o Concat(Tail(ss))

\* sep.join(parts)
RECURSIVE Join(_, _)
Join(sep, parts) ==
    IF parts = <<>> THEN <<>>
    ELSE IF Len(parts) = 1 THEN parts[1]
    ELSE parts[1] \o sep \o Join(sep, Tail(parts))

\* the elements of a finite set of integers in ascending order
RECURSIVE Ascending(_)
Ascending(S) ==
    IF S = {} THEN <<>>
    ELSE LET m == CHOOSE x \in S : \A y \in S : x <= y
         IN  <<m>> \o Ascending(S \ {m})

\* s.strip()
strip(s) ==
    IF \A i \in 1..Len(s) : IsSpace(s[i]) THEN <<>>
    ELSE LET a == CHOOSE i \in 1..Len(s) :
                      ~IsSpace(s[i]) /\ \A j \in 1..(i - 1) : IsSpace(s[j])
             b == CHOOSE i \in 1..Len(s) :
                      ~IsSpace(s[i]) /\ \A j \in (i + 1)..Len(s) : IsSpace(s[j])
         IN  SubSeq(s, a, b)

\* s.split(): the maximal runs of non-whitespace characters, in order
split(s) ==
    LET n      == Len(s)
        starts == {i \in 1..n : ~IsSpace(s[i]) /\ (i = 1 \/ IsSpace(s[i - 1]))}
        ends   == {i \in 1..n : ~IsSpace(s[i]) /\ (i = n \/ IsSpace(s[i + 1]))}
        ss     == Ascending(starts)
        es     == Ascending(ends)
    IN  [k \in 1..Len(ss) |-> SubSeq(s, ss[k], es[k])]

\* s.split(c) for a one-character separator c: empty pieces are kept
split_on(s, c) ==
    LET n   == Len(s)
        at  == Ascending({i \in 1..n : s[i] = c})
        k   == Len(at)
        from(j) == IF j = 1 THEN 1 ELSE at[j - 1] + 1
        to(j)   == IF j = k + 1 THEN n ELSE at[j] - 1
    IN  [j \in 1..(k + 1) |-> SubSeq(s, from(j), to(j))]

\* s.replace(c, r) for a one-character c: every occurrence, left to right
replace(s, c, r) == Join(r, split_on(s, c))

(***************************************************************************)
(* wrap_title                                                              *)
(***************************************************************************)
\* render_short.py:59: the line limit of wrap_title
MaxLines == 3

\* the fit test of line 50 without the separating space
RECURSIVE WrapLoopNoSpace(_, _, _, _)
WrapLoopNoSpace(words, ls, cur, mc) ==
    IF words = <<>>
    THEN IF cur # <<>> THEN Append(ls, cur) ELSE ls
    ELSE LET w == Head(words)
         IN  IF Len(cur) + Len(w) <= mc
             THEN WrapLoopNoSpace(Tail(words), ls, strip(cur \o <<" ">> \o w), mc)
             ELSE WrapLoopNoSpace(Tail(words),
                                  IF cur # <<>> THEN Append(ls, cur) ELSE ls, w, mc)

\* the for loop of wrap_title and the final flush (lines 49-57)
RECURSIVE WrapLoop(_, _, _, _)
WrapLoop(words, ls, cur, mc) ==
    IF words = <<>>
    THEN IF cur # <<>> THEN Append(ls, cur) ELSE ls
    ELSE LET w == Head(words)
         IN  IF Len(cur) + (IF cur # <<>> THEN 1 ELSE 0) + Len(w) <= mc
             THEN WrapLoop(Tail(words), ls, strip(cur \o <<" ">> \o w), mc)
             ELSE WrapLoop(Tail(words),
                           IF cur # <<>> THEN Append(ls, cur) ELSE ls, w, mc)

\* lines 46-57: the greedily wrapped lines
GreedyLines(t, mc) == WrapLoop(split(t), <<>>, <<>>, mc)

\* the tail merged one line too late: lines[:3] + [" ".join(lines[3:])]
LimitLinesLate(ls) ==
    IF Len(ls) > MaxLines
    THEN SubSeq(ls, 1, MaxLines)
            \o <<Join(<<" ">>, SubSeq(ls, MaxLines + 1, Len(ls)))>>
    ELSE ls

\* lines 58-60: limit to 3 lines, merging the tail
LimitLines(ls) ==
    IF Len(ls) > MaxLines
    THEN SubSeq(ls, 1, MaxLines - 1)
            \o <<Join(<<" ">>, SubSeq(ls, MaxLines, Len(ls)))>>
    ELSE ls

wrap_title(t, mc) == Join(<<"\n">>, LimitLines(GreedyLines(t, mc)))

(***************************************************************************)
(* escape_drawtext                                                         *)
(***************************************************************************)
\* lines 36-40: five str.replace calls, backslash first
escape_drawtext(t) ==
    LET t1 == replace(t,  "\\", <<"\\", "\\">>)
        t2 == replace(t1, ":",  <<"\\", ":">>)
        t3 == replace(t2, "'",  <<"\\", "'">>)
        t4 == replace(t3, "%",  <<"\\", "%">>)
        t5 == replace(t4, "\n", <<"\\", "n">>)
    IN  t5

(***************************************************************************)
(* split_script_into_chunks                                                *)
(***************************************************************************)
\* render_short.py:82: a packed block holds at most this many characters
MaxBlockChars == 170

NonBlank(p) == strip(p) # <<>>

\* lines 71-72: the sentences of the stripped script s
Sentences(s) ==
    LET marked == replace(replace(s, "?", <<"?", ".">>), "!", <<"!", ".">>)
        kept   == SelectSeq(split_on(marked, "."), NonBlank)
        parts  == [i \in 1..Len(kept) |-> strip(kept[i])]
    IN  \* line 72 maps every part to itself, whatever it ends with
        parts

\* lines 77-89: pack the sentences into blocks of at most 170 characters
RECURSIVE PackLoop(_, _, _)
PackLoop(sents, cs, cur) ==
    IF sents = <<>>
    THEN IF cur # <<>> THEN Append(cs, cur) ELSE cs
    ELSE LET sent      == Head(sents)
             candidate == strip(cur \o <<" ">> \o sent)
         IN  IF Len(candidate) <= MaxBlockChars
             THEN PackLoop(Tail(sents), cs, candidate)
             ELSE PackLoop(Tail(sents),
                           IF cur # <<>> THEN Append(cs, cur) ELSE cs, sent)

Pack(sents) == PackLoop(sents, <<>>, <<>>)

\* lines 94-100: the first adjacent pair of least combined length
BestPair(cs) ==
    CHOOSE i \in 1..(Len(cs) - 1) :
        /\ \A j \in 1..(Len(cs) - 1) :
               Len(cs[i]) + Len(cs[i + 1]) <= Len(cs[j]) + Len(cs[j + 1])
        /\ \A j \in 1..(i - 1) :
               Len(cs[j]) + Len(cs[j + 1]) > Len(cs[i]) + Len(cs[i + 1])

\* lines 93-103: one iteration of the merge loop (Len(cs) >= 2)
MergeOnce(cs) ==
    LET i == BestPair(cs)
    IN  SubSeq(cs, 1, i - 1)
            \o <<strip(cs[i] \o <<" ">> \o cs[i + 1])>>
            \o SubSeq(cs, i + 2, Len(cs))

\* the loop test off by one
TooManyOffByOne(cs, target) == Len(cs) > target + 1

\* line 92: the test of the merge loop
TooMany(cs, target) == Len(cs) > target

\* lines 92-103: the merge loop, for a target of at least 1
RECURSIVE MergeLoop(_, _)
MergeLoop(cs, target) ==
    IF TooMany(cs, target) THEN MergeLoop(MergeOnce(cs), target) ELSE cs

split_script_into_chunks(scr, target) ==
    LET s     == strip(scr)
        sents == Sentences(s)
    IN  IF Len(sents) <= 1 THEN <<s>>
        ELSE MergeLoop(Pack(sents), target)

(***************************************************************************)
(* allocate_timings                                                        *)
(***************************************************************************)
Abs(n) == IF n < 0 THEN -n ELSE n

RECURSIVE GCD(_, _)
GCD(a, b) == IF b = 0 THEN a ELSE GCD(b, a % b)

\* the rational n/d (d > 0) in lowest terms
Rat(n, d) == LET g == GCD(Abs(n), d) IN <<n \div g, d \div g>>

RAdd(x, y) == Rat(x[1] * y[2] + y[1] * x[2], x[2] * y[2])
RSub(x, y) == Rat(x[1] * y[2] - y[1] * x[2], x[2] * y[2])
RLt(x, y)  == x[1] * y[2] < y[1] * x[2]
RLe(x, y)  == x[1] * y[2] <= y[1] * x[2]
RMin(x, y) == IF RLe(x, y) THEN x ELSE y

\* render_short.py:108: the default lead_in and tail_out, in milliseconds
LeadIn == 400
TailOut == 200
\* render_short.py:110: the least window shared out among the chunks
MinAvailable == 500
\* render_short.py:113: the least weight of a chunk
MinWeight == 3
\* render_short.py:124: the last caption ends this long before the clip does
EndMargin == 50

Max(a, b) == IF a >= b THEN a ELSE b

\* lines 111-113
Weights(cs) == [i \in 1..Len(cs) |-> Max(MinWeight, Len(split(cs[i])))]

RECURSIVE Sum(_)
Sum(ws) == IF ws = <<>> THEN 0 ELSE Head(ws) + Sum(Tail(ws))

\* the window without its floor
AvailableNoFloor(total_dur) == total_dur - LeadIn - TailOut

\* line 110
Available(total_dur) == Max(MinAvailable, total_dur - LeadIn - TailOut)

\* the layout without line 121: t never advances
RECURSIVE LayoutNoAdvance(_, _, _, _)
LayoutNoAdvance(ws, wsum, available, t) ==
    IF ws = <<>> THEN <<>>
    ELSE LET dt == Rat(available * Head(ws), wsum)
         IN  <<<<t, RAdd(t, dt)>>>> \o LayoutNoAdvance(Tail(ws), wsum, available, t)

\* lines 116-121: the intervals laid out from t, one per weight
RECURSIVE Layout(_, _, _, _)
Layout(ws, wsum, available, t) ==
    IF ws = <<>> THEN <<>>
    ELSE LET dt == Rat(available * Head(ws), wsum)
         IN  <<<<t, RAdd(t, dt)>>>> \o Layout(Tail(ws), wsum, available, RAdd(t, dt))

\* lines 122-124: clamp the last end
ClampLast(tm, total_dur) ==
    IF tm # <<>>
    THEN [tm EXCEPT ![Len(tm)] =
             <<tm[Len(tm)][1], RMin(Rat(total_dur - EndMargin, 1), tm[Len(tm)][2])>>]
    ELSE tm

allocate_timings(cs, total_dur) ==
    LET weights == Weights(cs)
    IN  ClampLast(Layout(weights, Sum(weights), Available(total_dur), Rat(LeadIn, 1)),
                  total_dur)

(***************************************************************************)
(* main: the inputs, and the filter graph it assembles                     *)
(***************************************************************************)
\* render_short.py:8
FPS == 30
\* render_short.py:140: the floor of the probed duration, in milliseconds
MinDuration == 8000
\* render_short.py:142
TitleMaxChars == 28
\* render_short.py:143
TargetChunks == 8

\* a key the JSON object does not hold: dict.get returns None
None == <<"None">>

\* line 136: the fallback title
DefaultTitle ==
    <<"C", "a", "n", "a", "d", "i", "a", "n", " ", "F", "i", "n", "a", "n", "c", "e">>

\* x or y, for a str or None x
Or(x, y) == IF x = None \/ x = <<>> THEN y ELSE x

\* "{:.3f}" of a time, as a whole number of milliseconds (ties to even)
Fmt3(r) ==
    LET q   == r[1] \div r[2]
        rem == r[1] % r[2]
    IN  IF 2 * rem < r[2] THEN q
        ELSE IF 2 * rem > r[2] THEN q + 1
        ELSE IF q % 2 = 0 THEN q ELSE q + 1

\* one filter of a chain: its name, the font or colour it draws with, its
\* text, and its enable window (<<>> when it has no enable option)
Filter(f, a, t, en) == [filter |-> f, arg |-> a, text |-> t, enable |-> en]

\* lines 155-160
Background ==
    <<Filter("blend", "", <<>>, <<>>), Filter("noise", "", <<>>, <<>>),
      Filter("scale", "", <<>>, <<>>), Filter("crop", "", <<>>, <<>>)>>

\* lines 164-172
TitleFilter(safe_title) == Filter("drawtext", "FONT_BOLD", safe_title, <<>>)

\* lines 180-189: enable='between(t,ts,te)' with both ends formatted
CaptionFilter(chunk, tm) ==
    Filter("drawtext", "FONT_REG", escape_drawtext(chunk), <<Fmt3(tm[1]), Fmt3(tm[2])>>)

Min(a, b) == IF a <= b THEN a ELSE b

\* lines 176-189: one filter per pair of zip(chunks, times)
CaptionFilters(cs, tms) ==
    [i \in 1..Min(Len(cs), Len(tms)) |-> CaptionFilter(cs[i], tms[i])]

\* line 191
CaptionsChain(cs, tms) ==
    IF CaptionFilters(cs, tms) # <<>> THEN CaptionFilters(cs, tms)
    ELSE <<Filter("null", "", <<>>, <<>>)>>

\* lines 195-198: the track, then the fill
Progress ==
    <<Filter("drawbox", "white@0.10", <<>>, <<>>),
      Filter("drawbox", "#FF7A18@0.95", <<>>, <<>>)>>

\* the progress bar chained before the captions instead of after them
FilterComplexProgressFirst(tw, cs, tms) ==
    <<[inputs |-> <<"0:v", "1:v">>, chain |-> Background, output |-> "bg"],
      [inputs |-> <<"bg">>, chain |-> <<TitleFilter(escape_drawtext(tw))>>,
       output |-> "v1"],
      [inputs |-> <<"v1">>, chain |-> Progress \o CaptionsChain(cs, tms),
       output |-> "vout"]>>

\* lines 204-208: three chains, each from its input labels to its output label
FilterComplex(tw, cs, tms) ==
    <<[inputs |-> <<"0:v", "1:v">>, chain |-> Background, output |-> "bg"],
      [inputs |-> <<"bg">>, chain |-> <<TitleFilter(escape_drawtext(tw))>>,
       output |-> "v1"],
      [inputs |-> <<"v1">>, chain |-> CaptionsChain(cs, tms) \o Progress,
       output |-> "vout"]>>

\* The filters that make up the stream labelled l, back to front: those of
\* the streams its chain reads, then its own.  A label no chain writes is an
\* input file.
RECURSIVE Stack(_, _)
Stack(fc, l) ==
    IF \A i \in 1..Len(fc) : fc[i].output # l THEN <<>>
    ELSE LET seg == fc[CHOOSE i \in 1..Len(fc) : fc[i].output = l]
         IN  Concat([k \in 1..Len(seg.inputs) |-> Stack(fc, seg.inputs[k])])
                 \o seg.chain

\* line 219: -map [vout]
Layers == Stack(filter_complex, "vout")

CaptionLayers == SelectSeq(Layers, LAMBDA f : f.filter = "drawtext" /\ f.arg = "FONT_REG")

\* between(t, lo, hi) at frame k, whose time is k / FPS seconds
Between(k, lo, hi) == lo * FPS <= k * 1000 /\ k * 1000 <= hi * FPS

\* whether the filter draws on frame k
Shown(f, k) == f.enable = <<>> \/ Between(k, f.enable[1], f.enable[2])

\* the frames of the clip
Frames == 0..((dur * FPS) \div 1000)

(***************************************************************************)
(* The inputs of main                                                      *)
(***************************************************************************)
\* the most sentences of a script given to main
MaxSentences == 9
\* the characters of a one-word sentence too long to share a block
LongWord == 90
\* the words of a many-word sentence, and the characters of each
ManyWords == 5
WordChars == 17

Sentence(kind) ==
    IF kind = 1 THEN Rep("x", LongWord)
    ELSE Join(<<" ">>, [i \in 1..ManyWords |-> Rep("y", WordChars)])

\* n sentences, each ended by a full stop; the odd ones of kind a, the even of kind b
LongScript(n, a, b) ==
    Concat([i \in 1..n |-> Sentence(IF i % 2 = 1 THEN a ELSE b) \o <<".", " ">>])

MainScripts ==
    {None, <<>>, <<" ", "\n">>, <<"a", " ", "b">>, <<"a", ".", " ", "b", "?">>}
        \cup {LongScript(n, 1, 1) : n \in 1..MaxSentences}
        \cup {LongScript(n, 2, 1) : n \in 1..MaxSentences}

MainTitles ==
    {None, <<>>, <<"a", ":", " ", "b", "'", "s">>,
     Join(<<" ">>, [i \in 1..6 |-> Rep("t", 12)]),
     Join(<<" ">>, [i \in 1..4 |-> Rep("t", 30)])}

\* durations ffprobe reports, in milliseconds
ProbedDurations == {3000, 8000, 8600, 10534}

(***************************************************************************)
(* main, one step per stage                                                *)
(***************************************************************************)
Init ==
    /\ TtsIdle /\ QueueIdle
    /\ pc = "start"
    /\ data \in [youtube_title : MainTitles, script : MainScripts]
    /\ probed \in ProbedDurations
    /\ title = <<>> /\ script = <<>> /\ dur = 0
    /\ max_chars = TitleMaxChars /\ target_chunks = TargetChunks
    /\ lines = <<>> /\ title_wrapped = <<>> /\ sentences = <<>>
    /\ chunks = <<>> /\ times = <<>> /\ text = <<>> /\ safe = <<>>
    /\ filter_complex = <<>>

\* lines 135-140
ReadInput ==
    /\ pc = "start"
    /\ title' = Or(data.youtube_title, DefaultTitle)
    /\ script' = Or(data.script, <<>>)
    /\ dur' = Max(MinDuration, probed)
    /\ pc' = "read"
    /\ UNCHANGED <<tts_vars, queue_vars>>
    /\ UNCHANGED <<data, probed, max_chars, target_chunks, lines, title_wrapped,
                   sentences, chunks, times, text, safe, filter_complex>>

\* line 142
WrapTitle ==
    /\ pc = "read"
    /\ title_wrapped' = wrap_title(title, max_chars)
    /\ pc' = "wrapped"
    /\ UNCHANGED <<tts_vars, queue_vars>>
    /\ UNCHANGED <<data, probed, title, script, dur, max_chars, target_chunks,
                   lines, sentences, chunks, times, text, safe, filter_complex>>

\* line 143
SplitScript ==
    /\ pc = "wrapped"
    /\ chunks' = split_script_into_chunks(script, target_chunks)
    /\ pc' = "chunked"
    /\ UNCHANGED <<tts_vars, queue_vars>>
    /\ UNCHANGED <<data, probed, title, script, dur, max_chars, target_chunks,
                   lines, title_wrapped, sentences, times, text, safe,
                   filter_complex>>

\* line 144
AllocateTimings ==
    /\ pc = "chunked"
    /\ times' = allocate_timings(chunks, dur)
    /\ pc' = "timed"
    /\ UNCHANGED <<tts_vars, queue_vars>>
    /\ UNCHANGED <<data, probed, title, script, dur, max_chars, target_chunks,
                   lines, title_wrapped, sentences, chunks, text, safe,
                   filter_complex>>

\* lines 155-208
BuildGraph ==
    /\ pc = "timed"
    /\ filter_complex' = FilterComplex(title_wrapped, chunks, times)
    /\ pc' = "done"
    /\ UNCHANGED <<tts_vars, queue_vars>>
    /\ UNCHANGED <<data, probed, title, script, dur, max_chars, target_chunks,
                   lines, title_wrapped, sentences, chunks, times, text, safe>>

Next == ReadInput \/ WrapTitle \/ SplitScript \/ AllocateTimings \/ BuildGraph

Spec == Init /\ [][Next]_vars

(***************************************************************************)
(* Claims about main (checked under Spec)                                  *)
(***************************************************************************)
\* the captions drawn on frame k
ShownCaptions(k) == {i \in 1..Len(CaptionLayers) : Shown(CaptionLayers[i], k)}

\* C1: in the graph main builds, caption layers never overlap in time: on
\* every frame of the clip at most one caption layer is drawn, also on a
\* frame at the instant where one caption's interval ends and the next begins.
C1_CaptionsNeverOverlap ==
    pc = "done" => \A k \in Frames : Cardinality(ShownCaptions(k)) <= 1

\* C2: the graph stacks, back to front, the background, the title card, one
\* caption layer per chunk in chunk order (the i-th with the i-th chunk's
\* text and the i-th interval), then the progress track and the fill; the
\* chains are linked [bg] -> [v1] -> [vout].
C2_StackingOrder ==
    pc = "done" =>
        LET n == Len(chunks)
            L == Layers
        IN  /\ Len(filter_complex) = 3
            /\ filter_complex[1].output = "bg"
            /\ filter_complex[2].inputs = <<"bg">>
            /\ filter_complex[2].output = "v1"
            /\ filter_complex[3].inputs = <<"v1">>
            /\ filter_complex[3].output = "vout"
            /\ Len(L) = 4 + 1 + n + 2
            /\ Len(CaptionLayers) = n
            /\ <<L[1].filter, L[2].filter, L[3].filter, L[4].filter>>
                   = <<"blend", "noise", "scale", "crop">>
            /\ L[5] = [filter |-> "drawtext", arg |-> "FONT_BOLD",
                       text |-> escape_drawtext(title_wrapped), enable |-> <<>>]
            /\ \A i \in 1..n :
                   L[5 + i] = [filter |-> "drawtext", arg |-> "FONT_REG",
                               text |-> escape_drawtext(chunks[i]),
                               enable |-> <<Fmt3(times[i][1]), Fmt3(times[i][2])>>]
            /\ L[5 + n + 1] = [filter |-> "drawbox", arg |-> "white@0.10",
                               text |-> <<>>, enable |-> <<>>]
            /\ L[5 + n + 2] = [filter |-> "drawbox", arg |-> "#FF7A18@0.95",
                               text |-> <<>>, enable |-> <<>>]

\* a finished run with several captions of different texts
C2_Witness ==
    /\ pc = "done"
    /\ Len(chunks) >= 3
    /\ chunks[1] # chunks[2]
    /\ Len(Layers) = 7 + Len(chunks)

\* C3: when the script is absent, empty or whitespace-only, the run yields
\* zero chunks, zero intervals and a graph with zero caption layers.
C3_EmptyScriptNoCaptions ==
    pc = "done" /\ (data.script = None \/ strip(data.script) = <<>>) =>
        chunks = <<>> /\ times = <<>> /\ Len(CaptionLayers) = 0

(***************************************************************************)
(* wrap_title called on its own                                            *)
(***************************************************************************)
\* every str of at most n characters of the alphabet A
Strings(A, n) == UNION {[1..k -> A] : k \in 0..n}

\* the longest title, and the widest max_chars
MaxTitleLen == 8
MaxWidth == 3

WrapInit ==
    /\ TtsIdle /\ QueueIdle
    /\ pc = "wrap"
    /\ title \in Strings({"a", " ", "\n"}, MaxTitleLen)
    /\ max_chars \in 0..MaxWidth
    /\ data = <<>> /\ probed = 0 /\ script = <<>> /\ dur = 0
    /\ target_chunks = TargetChunks
    /\ lines = <<>> /\ title_wrapped = <<>> /\ sentences = <<>>
    /\ chunks = <<>> /\ times = <<>> /\ text = <<>> /\ safe = <<>>
    /\ filter_complex = <<>>

\* lines 46-57
WrapGreedy ==
    /\ pc = "wrap"
    /\ lines' = GreedyLines(title, max_chars)
    /\ pc' = "limit"
    /\ UNCHANGED <<tts_vars, queue_vars>>
    /\ UNCHANGED <<data, probed, title, script, dur, max_chars, target_chunks,
                   title_wrapped, sentences, chunks, times, text, safe,
                   filter_complex>>

\* lines 58-61
WrapLimit ==
    /\ pc = "limit"
    /\ title_wrapped' = Join(<<"\n">>, LimitLines(lines))
    /\ pc' = "wrap_returned"
    /\ UNCHANGED <<tts_vars, queue_vars>>
    /\ UNCHANGED <<data, probed, title, script, dur, max_chars, target_chunks,
                   lines, sentences, chunks, times, text, safe, filter_complex>>

WrapNext == WrapGreedy \/ WrapLimit

SpecWrap == WrapInit /\ [][WrapNext]_vars

\* the lines of the returned str ("" has none)
OutLines == IF title_wrapped = <<>> THEN <<>> ELSE split_on(title_wrapped, "\n")

\* C6: the output of wrap_title has at most 3 lines; when greedy wrapping
\* gives more than 3 lines, the first 2 are kept verbatim and the rest are
\* space-joined into the third; empty or whitespace-only input gives "".
C6_AtMostThreeLines ==
    pc = "wrap_returned" =>
        /\ Len(OutLines) <= 3
        /\ Len(lines) > 3 =>
               /\ Len(OutLines) = 3
               /\ OutLines[1] = lines[1]
               /\ OutLines[2] = lines[2]
               /\ OutLines[3] = Join(<<" ">>, SubSeq(lines, 3, Len(lines)))
        /\ Len(lines) <= 3 => OutLines = lines
        /\ (\A i \in 1..Len(title) : IsSpace(title[i])) => title_wrapped = <<>>

\* a title that wraps greedily into four lines
C6_Witness ==
    /\ pc = "wrap_returned"
    /\ Len(lines) = 4
    /\ Len(OutLines) = 3

\* line i of the output is one word longer than max_chars
LongWordLine(i) == Len(split(OutLines[i])) = 1 /\ Len(OutLines[i]) > max_chars

\* C7 as claimed: every line of the output has length <= max_chars unless it
\* is a single word longer than max_chars; no word is split across lines.
C7_EveryLineFits ==
    pc = "wrap_returned" =>
        /\ \A i \in 1..Len(OutLines) :
               Len(OutLines[i]) <= max_chars \/ LongWordLine(i)
        /\ Concat([i \in 1..Len(OutLines) |-> split(OutLines[i])]) = split(title)

\* C7 as amended: the same, except for the third line when it is the
\* overflow line, the space-joined tail of more than 3 greedy lines.
C7_EveryLineButOverflowFits ==
    pc = "wrap_returned" =>
        /\ \A i \in 1..Len(OutLines) :
               \/ Len(OutLines[i]) <= max_chars
               \/ LongWordLine(i)
               \/ i = 3 /\ Len(lines) > 3
        /\ Concat([i \in 1..Len(OutLines) |-> split(OutLines[i])]) = split(title)

\* two words share a line, and a word longer than max_chars has its own
C7_Witness ==
    /\ pc = "wrap_returned"
    /\ Len(lines) <= 3
    /\ \E i \in 1..Len(OutLines) : Len(split(OutLines[i])) = 2
    /\ \E i \in 1..Len(OutLines) : LongWordLine(i)

(***************************************************************************)
(* split_script_into_chunks called on its own, one step per loop iteration *)
(***************************************************************************)
\* the longest script spelt out character by character
MaxScriptLen == 5
\* the most sentences of a script made of whole sentences
MaxPool == 4
\* the largest target_chunks
MaxTarget == 3
\* the characters of a sentence of which two, not three, share a block
MidWord == 57

\* a sentence with its terminator
PoolSentences ==
    {Rep("x", LongWord) \o <<".", " ">>,
     Rep("m", MidWord) \o <<"?", " ">>,
     <<"a", "b", " ", "c", ".", "\n">>}

SplitScripts ==
    Strings({"a", " ", ".", "?"}, MaxScriptLen)
        \cup {Concat(ps) : ps \in UNION {[1..k -> PoolSentences] : k \in 2..MaxPool}}

SplitInit ==
    /\ TtsIdle /\ QueueIdle
    /\ pc = "split"
    /\ script \in SplitScripts
    /\ target_chunks \in 1..MaxTarget
    /\ data = <<>> /\ probed = 0 /\ title = <<>> /\ dur = 0
    /\ max_chars = TitleMaxChars
    /\ lines = <<>> /\ title_wrapped = <<>> /\ sentences = <<>>
    /\ chunks = <<>> /\ times = <<>> /\ text = <<>> /\ safe = <<>>
    /\ filter_complex = <<>>

\* lines 66-74: at most one sentence returns the stripped script whole
SplitSentences ==
    /\ pc = "split"
    /\ LET s     == strip(script)
           sents == Sentences(s)
       IN  /\ sentences' = sents
           /\ IF Len(sents) <= 1
              THEN chunks' = <<s>> /\ pc' = "split_returned"
              ELSE chunks' = chunks /\ pc' = "pack"
    /\ UNCHANGED <<tts_vars, queue_vars>>
    /\ UNCHANGED <<data, probed, title, script, dur, max_chars, target_chunks,
                   lines, title_wrapped, times, text, safe, filter_complex>>

\* lines 77-89
PackSentences ==
    /\ pc = "pack"
    /\ chunks' = Pack(sentences)
    /\ pc' = "merge"
    /\ UNCHANGED <<tts_vars, queue_vars>>
    /\ UNCHANGED <<data, probed, title, script, dur, max_chars, target_chunks,
                   lines, title_wrapped, sentences, times, text, safe,
                   filter_complex>>

\* lines 92-103: one iteration of the merge loop
MergeStep ==
    /\ pc = "merge"
    /\ TooMany(chunks, target_chunks)
    /\ chunks' = MergeOnce(chunks)
    /\ UNCHANGED <<tts_vars, queue_vars>>
    /\ UNCHANGED <<pc, data, probed, title, script, dur, max_chars,
                   target_chunks, lines, title_wrapped, sentences, times, text,
                   safe, filter_complex>>

\* line 105
ReturnChunks ==
    /\ pc = "merge"
    /\ ~TooMany(chunks, target_chunks)
    /\ pc' = "split_returned"
    /\ UNCHANGED <<tts_vars, queue_vars>>
    /\ UNCHANGED <<data, probed, title, script, dur, max_chars, target_chunks,
                   lines, title_wrapped, sentences, chunks, times, text, safe,
                   filter_complex>>

SplitNext == SplitSentences \/ PackSentences \/ MergeStep \/ ReturnChunks

SpecSplit == SplitInit /\ [][SplitNext]_vars

\* C4: for a non-empty script and target_chunks >= 1 the function returns at
\* most target_chunks chunks, and the merge loop terminates: it iterates
\* only while the count exceeds the target, each iteration removes exactly
\* one chunk, and it is left once the count is at or below the target.
C4_AtMostTargetChunks ==
    [][/\ pc' = "split_returned" /\ script # <<>> =>
              /\ Len(chunks') <= target_chunks
              /\ chunks' = split_script_into_chunks(script, target_chunks)
       /\ pc = "merge" /\ pc' = "merge" =>
              /\ Len(chunks) > target_chunks
              /\ Len(chunks') = Len(chunks) - 1
       /\ pc = "merge" /\ pc' = "split_returned" =>
              Len(chunks) <= target_chunks]_vars

\* a call that packed four blocks and merged them down to its target
C4_Witness ==
    /\ pc = "split_returned"
    /\ Len(Pack(sentences)) = 4
    /\ target_chunks = 2
    /\ Len(chunks) = 2

\* C5: for a non-empty script the words of the returned chunks, in chunk
\* order, are the words of the stripped script in their original order.
C5_WordsPreserved ==
    pc = "split_returned" /\ script # <<>> =>
        Concat([i \in 1..Len(chunks) |-> split(chunks[i])]) = split(strip(script))

(***************************************************************************)
(* allocate_timings called on its own                                      *)
(***************************************************************************)
\* the most chunks of a list
MaxChunks == 4

\* a chunk of n one-letter words
Words(n) == Join(<<" ">>, [i \in 1..n |-> <<"a">>])

AllocChunks == {Words(n) : n \in {0, 2, 3, 5, 9}}

\* total durations in milliseconds, on both sides of the floor main applies
AllocDurations == {0, 40, 500, 900, 949, 950, 1000, 1100, 2000, 8000, 8001, 9999, 12000}

AllocInit ==
    /\ TtsIdle /\ QueueIdle
    /\ pc = "alloc"
    /\ chunks \in UNION {[1..k -> AllocChunks] : k \in 0..MaxChunks}
    /\ dur \in AllocDurations
    /\ data = <<>> /\ probed = 0 /\ title = <<>> /\ script = <<>>
    /\ max_chars = TitleMaxChars /\ target_chunks = TargetChunks
    /\ lines = <<>> /\ title_wrapped = <<>> /\ sentences = <<>>
    /\ times = <<>> /\ text = <<>> /\ safe = <<>>
    /\ filter_complex = <<>>

\* lines 108-125
Allocate ==
    /\ pc = "alloc"
    /\ times' = allocate_timings(chunks, dur)
    /\ pc' = "alloc_returned"
    /\ UNCHANGED <<tts_vars, queue_vars>>
    /\ UNCHANGED <<data, probed, title, script, dur, max_chars, target_chunks,
                   lines, title_wrapped, sentences, chunks, text, safe,
                   filter_complex>>

AllocNext == Allocate

SpecAlloc == AllocInit /\ [][AllocNext]_vars

Zero == <<0, 1>>

\* C8: for a non-empty chunk list and a total duration of at least 8 s the
\* result has one interval per chunk, laid out back to back from the lead-in:
\* start[0] = leadIn, start[i+1] = end[i], starts strictly increasing,
\* 0 <= start < end <= totalDuration, last end <= totalDuration - 0.05;
\* an empty chunk list gives an empty list.
C8_BackToBackIntervals ==
    pc = "alloc_returned" =>
        /\ chunks # <<>> /\ dur >= MinDuration =>
               /\ Len(times) = Len(chunks)
               /\ times[1][1] = <<LeadIn, 1>>
               /\ \A i \in 1..(Len(times) - 1) :
                      /\ times[i + 1][1] = times[i][2]
                      /\ RLt(times[i][1], times[i + 1][1])
               /\ \A i \in 1..Len(times) :
                      /\ RLe(Zero, times[i][1])
                      /\ RLt(times[i][1], times[i][2])
                      /\ RLe(times[i][2], <<dur, 1>>)
               /\ RLe(times[Len(times)][2], <<dur - EndMargin, 1>>)
        /\ chunks = <<>> => times = <<>>

\* four chunks of different weights timed over a clip longer than the floor
C8_Witness ==
    /\ pc = "alloc_returned"
    /\ dur > MinDuration
    /\ Len(times) = 4
    /\ Weights(chunks) = <<5, 3, 9, 3>>
    /\ times[2][1] = times[1][2]

\* the width of the i-th interval
Width(i) == RSub(times[i][2], times[i][1])

RECURSIVE RSum(_)
RSum(rs) == IF rs = <<>> THEN Zero ELSE RAdd(Head(rs), RSum(Tail(rs)))

\* chunk i has the width available * w_i / sum(w), and the widths sum to available
ProportionalWidths ==
    LET w         == [i \in 1..Len(chunks) |-> Max(3, Len(split(chunks[i])))]
        available == Max(500, dur - 400 - 200)
    IN  /\ Len(times) = Len(chunks)
        /\ \A i \in 1..Len(times) : Width(i) = Rat(available * w[i], Sum(w))
        /\ RSum([i \in 1..Len(times) |-> Width(i)]) = <<available, 1>>

\* C9 as claimed: for all chunk sequences and all durations, chunk i gets the
\* width available * w_i / sum(w), w_i = max(3, words of chunk i), available =
\* max(0.5, totalDuration - leadIn - tailOut), and the widths sum to available.
C9_WidthsSumToAvailable ==
    pc = "alloc_returned" => ProportionalWidths

\* C9 as amended: the same for every non-empty chunk list and every total
\* duration of at least 0.95 s.
C9_WidthsSumToAvailableFrom950 ==
    pc = "alloc_returned" /\ chunks # <<>> /\ dur >= 950 => ProportionalWidths

\* the scenario: 8.0 s, word counts 5, 3, 3, 9
C9_Witness ==
    /\ pc = "alloc_returned"
    /\ dur = 8000
    /\ Weights(chunks) = <<5, 3, 3, 9>>
    /\ times = <<<<<<400, 1>>, <<2250, 1>>>>, <<<<2250, 1>>, <<3360, 1>>>>,
                 <<<<3360, 1>>, <<4470, 1>>>>, <<<<4470, 1>>, <<7800, 1>>>>>>

(***************************************************************************)
(* escape_drawtext called on its own                                       *)
(***************************************************************************)
\* the longest text
MaxTextLen == 3

EscapeAlphabet == {"a", "\\", "'", ":", "%", ",", ";", "[", "]", "\n"}

EscapeInit ==
    /\ TtsIdle /\ QueueIdle
    /\ pc = "escape"
    /\ text \in Strings(EscapeAlphabet, MaxTextLen)
    /\ data = <<>> /\ probed = 0 /\ title = <<>> /\ script = <<>> /\ dur = 0
    /\ max_chars = TitleMaxChars /\ target_chunks = TargetChunks
    /\ lines = <<>> /\ title_wrapped = <<>> /\ sentences = <<>>
    /\ chunks = <<>> /\ times = <<>> /\ safe = <<>>
    /\ filter_complex = <<>>

\* lines 34-41
Escape ==
    /\ pc = "escape"
    /\ safe' = escape_drawtext(text)
    /\ pc' = "escape_returned"
    /\ UNCHANGED <<tts_vars, queue_vars>>
    /\ UNCHANGED <<data, probed, title, script, dur, max_chars, target_chunks,
                   lines, title_wrapped, sentences, chunks, times, text,
                   filter_complex>>

EscapeNext == Escape

SpecEscape == EscapeInit /\ [][EscapeNext]_vars

\* what the claim asks of one character
Escaped(c) ==
    IF c \in {"\\", "'", ":", "%", ",", ";", "[", "]"} THEN <<"\\", c>>
    ELSE IF c = "\n" THEN <<"\\", "n">>
    ELSE <<c>>

\* C10: every backslash, single quote, colon, percent sign, comma, semicolon,
\* '[' and ']' of the input is escaped with one backslash, every newline
\* becomes backslash-n, and no backslash an escape introduced is escaped again.
C10_EveryListedCharacterEscaped ==
    pc = "escape_returned" =>
        safe = Concat([i \in 1..Len(text) |-> Escaped(text[i])])

(***************************************************************************)
(* tts_openai.py: tts_request_stream                                       *)
(*                                                                         *)
(* A file is <<"absent">>, <<"old">> (what out_path held before the call), *)
(* <<"stale">> (a .part left by an earlier call) or <<"body", a, n>>: n    *)
(* bytes of the body of attempt a.  outcomes logs how each attempt ended.  *)
(***************************************************************************)
\* tts_openai.py:59
RetryableStatuses == {429, 500, 502, 503, 504}
\* tts_openai.py:81
MinBytes == 10000
\* tts_openai.py:100
MaxSleep == 60

\* the largest max_retries
MaxRetries == 3
\* the most bytes of a body
MaxBody == 12000

\* the statuses the server answers with
Statuses == {200, 400, 401, 429, 503}

\* the sizes of the chunks iter_content yields
ChunkSizes == {0, 4000, 6000}

RECURSIVE Pow2(_)
Pow2(n) == IF n = 0 THEN 1 ELSE 2 * Pow2(n - 1)

TtsInit ==
    /\ pc = "tts_loop"
    /\ max_retries \in 0..MaxRetries
    /\ attempt = 1
    /\ last_err = <<"None">>
    /\ bytes_written = 0
    /\ out_file \in {<<"absent">>, <<"old">>}
    /\ part_file \in {<<"absent">>, <<"stale">>}
    /\ outcomes = <<>> /\ sleep_s = 0 /\ result = "running"
    /\ RenderIdle /\ QueueIdle

\* an except clause of lines 89-97: the attempt ended with the error err
Caught(err, outcome) ==
    /\ last_err' = err
    /\ outcomes' = Append(outcomes, outcome)
    /\ pc' = "tts_backoff"

\* lines 47-75: one more request.  It times out, fails, or is answered; a
\* status other than 200 raises RuntimeError inside the try, and a 200 opens
\* an empty .part file.
Post ==
    /\ pc = "tts_loop"
    /\ attempt <= max_retries
    /\ \/ /\ Caught(<<"Timeout">>, <<"timeout">>)
          /\ UNCHANGED <<bytes_written, part_file>>
       \/ /\ Caught(<<"RequestException">>, <<"request_error">>)
          /\ UNCHANGED <<bytes_written, part_file>>
       \/ \E status_code \in Statuses :
              IF status_code \in RetryableStatuses
              THEN /\ Caught(<<"RuntimeError", "Retryable HTTP", status_code>>,
                             <<"http", status_code>>)
                   /\ UNCHANGED <<bytes_written, part_file>>
              ELSE IF status_code # 200
              THEN /\ Caught(<<"RuntimeError", "HTTP", status_code>>,
                             <<"http", status_code>>)
                   /\ UNCHANGED <<bytes_written, part_file>>
              ELSE /\ part_file' = <<"body", attempt, 0>>
                   /\ bytes_written' = 0
                   /\ pc' = "tts_stream"
                   /\ UNCHANGED <<last_err, outcomes>>
    /\ UNCHANGED <<max_retries, attempt, out_file, sleep_s, result>>
    /\ UNCHANGED <<render_vars, queue_vars>>

\* lines 76-79: the next chunk is written, the body ends, or the read fails
Stream ==
    /\ pc = "tts_stream"
    /\ \/ \E chunk \in ChunkSizes :
              /\ bytes_written + chunk <= MaxBody
              /\ IF chunk # 0
                 THEN /\ part_file' = <<"body", attempt, bytes_written + chunk>>
                      /\ bytes_written' = bytes_written + chunk
                 ELSE UNCHANGED <<part_file, bytes_written>>
              /\ UNCHANGED <<pc, last_err, outcomes>>
       \/ /\ pc' = "tts_check"
          /\ UNCHANGED <<part_file, bytes_written, last_err, outcomes>>
       \/ /\ Caught(<<"Timeout">>, <<"timeout">>)
          /\ UNCHANGED <<bytes_written, part_file>>
       \/ /\ Caught(<<"RequestException">>, <<"request_error">>)
          /\ UNCHANGED <<bytes_written, part_file>>
    /\ UNCHANGED <<max_retries, attempt, out_file, sleep_s, result>>
    /\ UNCHANGED <<render_vars, queue_vars>>

\* the rename done before the size check
FinishRenameFirst ==
    /\ pc = "tts_check"
    /\ out_file' = part_file
    /\ part_file' = <<"absent">>
    /\ IF bytes_written < MinBytes
       THEN /\ Caught(<<"RuntimeError", "too few bytes", bytes_written>>,
                      <<"too_few", bytes_written>>)
            /\ UNCHANGED result
       ELSE /\ outcomes' = Append(outcomes, <<"ok", bytes_written>>)
            /\ result' = "returned"
            /\ pc' = "tts_returned"
            /\ UNCHANGED last_err
    /\ UNCHANGED <<max_retries, attempt, bytes_written, sleep_s>>
    /\ UNCHANGED <<render_vars, queue_vars>>

\* lines 81-87: too few bytes raise; otherwise the .part file is renamed to
\* out_path and the call returns
Finish ==
    /\ pc = "tts_check"
    /\ IF bytes_written < MinBytes
       THEN /\ Caught(<<"RuntimeError", "too few bytes", bytes_written>>,
                      <<"too_few", bytes_written>>)
            /\ UNCHANGED <<out_file, part_file, result>>
       ELSE /\ out_file' = part_file
            /\ part_file' = <<"absent">>
            /\ outcomes' = Append(outcomes, <<"ok", bytes_written>>)
            /\ result' = "returned"
            /\ pc' = "tts_returned"
            /\ UNCHANGED last_err
    /\ UNCHANGED <<max_retries, attempt, bytes_written, sleep_s>>
    /\ UNCHANGED <<render_vars, queue_vars>>

\* lines 99-102, and the next value of the loop variable
Backoff ==
    /\ pc = "tts_backoff"
    /\ sleep_s' = Min(MaxSleep, Pow2(attempt))
    /\ attempt' = attempt + 1
    /\ pc' = "tts_loop"
    /\ UNCHANGED <<max_retries, last_err, bytes_written, out_file, part_file,
                   outcomes, result>>
    /\ UNCHANGED <<render_vars, queue_vars>>

\* line 104: the loop is exhausted
Raise ==
    /\ pc = "tts_loop"
    /\ attempt > max_retries
    /\ result' = "raised"
    /\ pc' = "tts_raised"
    /\ UNCHANGED <<max_retries, attempt, last_err, bytes_written, out_file,
                   part_file, outcomes, sleep_s>>
    /\ UNCHANGED <<render_vars, queue_vars>>

TtsNext == Post \/ Stream \/ Finish \/ Backoff \/ Raise

SpecTts == TtsInit /\ [][TtsNext]_vars

\* the requests made so far: the attempts that ended and the one under way
Posts == Len(outcomes) + (IF pc \in {"tts_stream", "tts_check"} THEN 1 ELSE 0)

\* C11: a status that is neither 200 nor one of 429/500/502/503/504 is not
\* retried: no further request follows it and the call fails; a retryable
\* status is followed by another request while attempts remain.
C11_NonRetryableStatusEndsTheCall ==
    \A i \in 1..Len(outcomes) :
        outcomes[i][1] = "http" =>
            IF outcomes[i][2] \notin {429, 500, 502, 503, 504}
            THEN /\ Posts = i
                 /\ result # "returned"
            ELSE result # "running" /\ i < max_retries => Posts > i

Ok(o) == o[1] = "ok"

Letters ==
    <<"A", "B", "C", "D", "E", "F", "G", "H", "I", "J", "K", "L", "M", "N", "O",
      "P", "Q", "R", "S", "T", "U", "V", "W", "X", "Y", "Z">>

LowerLetters ==
    <<"a", "b", "c", "d", "e", "f", "g", "h", "i", "j", "k", "l", "m", "n", "o",
      "p", "q", "r", "s", "t", "u", "v", "w", "x", "y", "z">>

\* s.upper()
upper(s) ==
    [i \in 1..Len(s) |->
        IF \E k \in 1..26 : LowerLetters[k] = s[i]
        THEN Letters[CHOOSE k \in 1..26 : LowerLetters[k] = s[i]]
        ELSE s[i]]

\* lines 31-36: the while loop of col_letter
RECURSIVE ColLetterLoop(_, _)
ColLetterLoop(n, s) ==
    IF n = 0 THEN s
    ELSE ColLetterLoop((n - 1) \div 26, <<Letters[((n - 1) % 26) + 1]>> \o s)

col_letter(col_index_0) == ColLetterLoop(col_index_0 + 1, <<>>)

\* the column, counted from 1, that the sheet finds under A1 column letters
RECURSIVE ColumnOfLetters(_)
ColumnOfLetters(ls) ==
    IF ls = <<>> THEN 0
    ELSE 26 * ColumnOfLetters(SubSeq(ls, 1, Len(ls) - 1))
            + (CHOOSE k \in 1..26 : Letters[k] = ls[Len(ls)])

\* the names the code looks up in the header row (lines 24-26, 81-87)
STATUS_COL == <<"s", "t", "a", "t", "u", "s">>
ERROR_COL == <<"e", "r", "r", "o", "r">>
TOPIC_COL == <<"t", "o", "p", "i", "c">>
FORMAT_COL == <<"f", "o", "r", "m", "a", "t">>
ID_COL == <<"i", "d">>

NEW_STATUS == <<"N", "E", "W">>
PROCESSING == <<"P", "R", "O", "C", "E", "S", "S", "I", "N", "G">>

\* a row as values.get returns it: without its trailing empty cells
RECURSIVE TrimRow(_)
TrimRow(row) ==
    IF row # <<>> /\ row[Len(row)] = <<>> THEN TrimRow(SubSeq(row, 1, Len(row) - 1))
    ELSE row

\* lines 65-67: the values of the tab, without trailing empty rows and cells
RECURSIVE TrimRows(_)
TrimRows(rows) ==
    IF rows # <<>> /\ rows[Len(rows)] = <<>> THEN TrimRows(SubSeq(rows, 1, Len(rows) - 1))
    ELSE rows

GetValues(sh) == TrimRows([r \in 1..Len(sh) |-> TrimRow(sh[r])])

\* the result of a lookup that finds nothing
NotFound == 0 - 1

\* line 74 and header_map.get: the 0-based index of the last header cell that
\* strips to name
HeaderIndex(header, name) ==
    LET at == {i \in 1..Len(header) : strip(header[i]) = name}
    IN  IF at = {} THEN NotFound
        ELSE (CHOOSE i \in at : \A j \in at : j <= i) - 1

\* line 95: the status of a row of values
StatusOf(row, status_idx) ==
    IF Len(row) > status_idx /\ row[status_idx + 1] # <<>>
    THEN upper(strip(row[status_idx + 1]))
    ELSE <<>>

\* the scan picking the last NEW row instead of the first
FirstNewTakesLast(values, status_idx) ==
    LET new == {i \in 1..(Len(values) - 1) : StatusOf(values[i + 1], status_idx) = NEW_STATUS}
    IN  IF new = {} THEN 0
        ELSE (CHOOSE i \in new : \A j \in new : j <= i) + 1

\* lines 90-99: picked_row_num, the sheet row of the first NEW row; 0 for None
FirstNew(values, status_idx) ==
    LET new == {i \in 1..(Len(values) - 1) : StatusOf(values[i + 1], status_idx) = NEW_STATUS}
    IN  IF new = {} THEN 0
        ELSE (CHOOSE i \in new : \A j \in new : i <= j) + 1

\* lines 118-125: the updates of the batchUpdate
Updates(status_idx, error_idx, picked_row_num) ==
    <<[col |-> col_letter(status_idx), row |-> picked_row_num, value |-> PROCESSING]>>
        \o (IF error_idx # NotFound
            THEN <<[col |-> col_letter(error_idx), row |-> picked_row_num, value |-> <<>>]>>
            ELSE <<>>)

\* lines 135-138: the sheet after the batchUpdate
RECURSIVE BatchUpdate(_, _)
BatchUpdate(sh, updates) ==
    IF updates = <<>> THEN sh
    ELSE LET u == Head(updates)
         IN  BatchUpdate([sh EXCEPT ![u.row][ColumnOfLetters(u.col)] = u.value],
                         Tail(updates))

\* the header rows of the sheets
Headers ==
    {<<ID_COL, TOPIC_COL, FORMAT_COL, STATUS_COL, ERROR_COL>>,
     <<ID_COL, TOPIC_COL, FORMAT_COL, <<" ">> \o STATUS_COL \o <<" ">>, <<"n", "o", "t", "e">>>>,
     <<STATUS_COL, ERROR_COL, ID_COL, TOPIC_COL, FORMAT_COL>>,
     <<ID_COL, STATUS_COL, FORMAT_COL, ERROR_COL, <<>>>>,
     <<<<>>, <<>>, <<>>, <<>>, <<>>>>}

\* what a data row holds: nothing, an id only, or an id, a topic, a status
\* and an error
RowKinds ==
    {[id |-> <<>>, topic |-> <<>>, status |-> <<>>, error |-> <<>>],
     [id |-> <<"7">>, topic |-> <<>>, status |-> <<>>, error |-> <<>>]}
        \cup [id : {<<"7">>}, topic : {<<"t">>},
              status : {NEW_STATUS, <<" ", "n", "e", "w", " ">>, <<"N", "E", "W", "S">>, PROCESSING},
              error : {<<>>, <<"e">>}]

\* the row of kind k under the header h
RowUnder(h, k) ==
    [c \in 1..Len(h) |->
        LET name == strip(h[c])
        IN  IF name = ID_COL THEN k.id
            ELSE IF name \in {TOPIC_COL, FORMAT_COL} THEN k.topic
            ELSE IF name = STATUS_COL THEN k.status
            ELSE IF name = ERROR_COL THEN k.error
            ELSE <<>>]

\* the most data rows of a sheet, and the most runs
MaxRows == 3
MaxRuns == 4

QueueInit ==
    /\ pc = "queue"
    /\ \E h \in Headers : \E ks \in [1..MaxRows -> RowKinds] :
           sheet = <<h>> \o [r \in 1..MaxRows |-> RowUnder(h, ks[r])]
    /\ picked_rows = <<>> /\ batches = <<>> /\ runs = 0 /\ last_run = "none"
    /\ RenderIdle /\ TtsIdle

\* lines 52-141: one run of main
QueueRun ==
    /\ pc = "queue"
    /\ runs < MaxRuns
    /\ runs' = runs + 1
    /\ LET values         == GetValues(sheet)
           header         == values[1]
           status_idx     == HeaderIndex(header, STATUS_COL)
           topic_idx      == HeaderIndex(header, TOPIC_COL)
           format_idx     == HeaderIndex(header, FORMAT_COL)
           id_idx         == HeaderIndex(header, ID_COL)
           error_idx      == HeaderIndex(header, ERROR_COL)
           picked_row_num == FirstNew(values, status_idx)
           updates        == Updates(status_idx, error_idx, picked_row_num)
       IN  IF values = <<>>
           THEN \* line 70
                /\ last_run' = "exit"
                /\ UNCHANGED <<sheet, picked_rows, batches>>
           ELSE IF NotFound \in {status_idx, topic_idx, format_idx, id_idx}
           THEN \* line 79
                /\ last_run' = "exit"
                /\ UNCHANGED <<sheet, picked_rows, batches>>
           ELSE IF picked_row_num = 0
           THEN \* lines 101-103
                /\ last_run' = "nothing"
                /\ UNCHANGED <<sheet, picked_rows, batches>>
           ELSE /\ sheet' = BatchUpdate(sheet, updates)
                /\ batches' = Append(batches, updates)
                /\ picked_rows' = Append(picked_rows, picked_row_num)
                /\ last_run' = "picked"
    /\ UNCHANGED <<pc, render_vars, tts_vars>>

QueueNext == QueueRun

SpecQueue == QueueInit /\ [][QueueNext]_vars

\* the column, counted from 1, whose header cell strips to name
HasColumn(name) == \E c \in 1..Len(sheet[1]) : strip(sheet[1][c]) = name
ColumnNamed(name) == CHOOSE c \in 1..Len(sheet[1]) : strip(sheet[1][c]) = name

\* the data rows whose status, trimmed and upper-cased, is NEW
NewRows ==
    {r \in 2..Len(sheet) : upper(strip(sheet[r][ColumnNamed(STATUS_COL)])) = NEW_STATUS}

====
